---- MODULE Spec2Model ----
(***************************************************************************)
(* The two Streamlit blog-writer apps, AI_Blog_Agent/app.py and            *)
(* AL_Blog_Post/app.py.  Streamlit executes the whole script once per user *)
(* interaction, so one action of the model is one script run: the widget   *)
(* values of the run are its inputs, the rendered elements its output.     *)
(* Strings whose characters matter (the topic, the download file name) are *)
(* sequences of one-character strings; message texts are sequences of the  *)
(* fragments an f-string concatenates.                                     *)
(***************************************************************************)
EXTENDS Integers, Sequences, FiniteSets, TLC

\* ------------------------------------------------------------- bounds
MaxTopicLen == 2      \* topics typed character by character, up to this length
MaxTicks    == 2      \* how often the clock advances
MaxModels   == 2      \* how many of the selectbox options the user picks among
TickSeconds == 1800   \* seconds per clock step
LongExtra   == 2      \* how far the long sample topics exceed the name limit

\* ------------------------------------------------- program constants
ttl        == 3600    \* @st.cache_data(ttl=3600)
MaxNameLen == 30      \* [:30] of the download file name

\* ------------------------------------------------------------ the apps
Apps == {"AI_Blog_Agent", "AL_Blog_Post"}

\* The names the crewai / crewai_tools import statements of AI_Blog_Agent bind.
ImportedAI == {"Agent", "Task", "Crew", "Process", "SerperDevTool"}

\* The names the crewai / crewai_tools import statements of AL_Blog_Post bind.
ImportedAL == {"Agent", "Task", "Crew", "Process", "LLM", "SerperDevTool"}

\* The options of the "Clarifai Model" selectbox of AI_Blog_Agent, in order.
ModelOptionsAI ==
  << "gcp/generate/models/gemini-2_5-pro", "gcp/generate/models/gemini-2_0-pro" >>

\* The options of the "Clarifai Model" selectbox of AL_Blog_Post, in order.
ModelOptionsAL ==
  << "meta/llama-3_1-8b-instruct", "meta/llama-3_1-70b-instruct",
     "mistralai/mistral-7b-instruct-v0_2", "google/gemma-2b-it" >>

ModelOptions(a) == IF a = "AI_Blog_Agent" THEN ModelOptionsAI ELSE ModelOptionsAL

Range(s) == { s[i] : i \in DOMAIN s }

\* --------------------------------------------------------- environment
SecretNames == << "CLARIFAI_PAT", "SERPER_API_KEY" >>

\* Python's None, as os.getenv returns it for a variable that is not set.
None == "<None>"

\* Values a secret can take: empty, or one of two distinct keys.
Keys == {"", "k1", "k2"}

\* os.environ restricted to the two secrets, as the process starts: a partial
\* function; a variable is not set, set to the empty string, or set to a key.
Environs == UNION { [D -> {"", "k1"}] : D \in SUBSET Range(SecretNames) }

\* os.getenv(key, default)
getenv(e, key, default) == IF key \in DOMAIN e THEN e[key] ELSE default

\* Python truthiness of a str-or-None value: `not v` is ~Truthy(v).
Truthy(v) == v \notin {None, ""}

\* os.environ[key] = value
setenv(e, key, value) ==
  [k \in DOMAIN e \cup {key} |-> IF k = key THEN value ELSE e[k]]

\* ------------------------------------------------------------- strings
\* Characters a user types into a topic: a letter, the space U+0020 and one
\* whitespace character that is not the space (the tab).
Whitespace == {" ", "\t"}
Chars == {"a"} \cup Whitespace

RECURSIVE lstrip(_)
lstrip(s) == IF s # << >> /\ Head(s) \in Whitespace THEN lstrip(Tail(s)) ELSE s

RECURSIVE rstrip(_)
rstrip(s) ==
  IF s # << >> /\ s[Len(s)] \in Whitespace
  THEN rstrip(SubSeq(s, 1, Len(s) - 1)) ELSE s

\* str.strip(): leading and trailing whitespace removed.
strip(s) == rstrip(lstrip(s))

\* str.replace(old, new) for one-character old and new.
replace(s, old, new) == [i \in 1..Len(s) |-> IF s[i] = old THEN new ELSE s[i]]

\* s[:n]
Prefix(s, n) == SubSeq(s, 1, IF Len(s) < n THEN Len(s) ELSE n)

BlogSuffix == << "_", "b", "l", "o", "g", ".", "m", "d" >>

\* f"{topic.replace(' ', '_')[:30]}_blog.md" of the AI_Blog_Agent download button
file_name_AI(topic) == Prefix(replace(topic, " ", "_"), MaxNameLen) \o BlogSuffix

\* Mutant: the name is not cut to its first 30 characters.
file_name_AL_NoCut(topic) == replace(topic, " ", "_") \o BlogSuffix

\* f"{topic.replace(' ', '_')[:30]}_blog.md" of the AL_Blog_Post download button
file_name_AL(topic) == Prefix(replace(topic, " ", "_"), MaxNameLen) \o BlogSuffix

\* ---------------------------------------------------- rendered elements
\* One element of the page: st.error, st.warning, st.success, st.subheader,
\* st.markdown, st.code; `text` is the sequence of fragments of its string.
El(kind, text) == [kind |-> kind, text |-> text, data |-> << >>]

\* st.download_button(label, data=..., file_name=...)
DownloadButton(name, data) == [kind |-> "download_button", text |-> name, data |-> data]

\* ------------------------------------------------ external collaborators
\* What the hosted collaborators do during one script run: which call raises
\* (if any) and with which message, and the texts the two steps produce.
Msgs            == {"quota exceeded", "timeout"}
ResearchOutputs == {"R1", "R2"}
WritingOutputs  == {"W1", "W2"}
Failures        == {"LLM", "SerperDevTool", "research", "writing"}

Collabs ==
  { [fail |-> "none", msg |-> "", research |-> r, writing |-> x, type |-> "CrewOutput"] :
      r \in ResearchOutputs, x \in WritingOutputs }
  \cup
  { [fail |-> "none", msg |-> "", research |-> "R1", writing |-> "W1", type |-> "str"] }
  \cup
  { [fail |-> f, msg |-> m, research |-> "R1", writing |-> "W1", type |-> "str"] :
      f \in Failures, m \in Msgs }

\* The value an orchestration call yields: a result, or a raised exception.
Ok(val, trace, steps) ==
  [ok |-> TRUE, val |-> val, err |-> "", etype |-> "", trace |-> trace, steps |-> steps]
Raise(etype, err, trace, steps) ==
  [ok |-> FALSE, val |-> "", err |-> err, etype |-> etype, trace |-> trace, steps |-> steps]

\* ------------------------------------------------------ agents and tasks
\* Agent(role=..., tools=[...], llm=..., allow_delegation=...)
Agent(role, tools, llm, allow_delegation) ==
  [role |-> role, tools |-> tools, llm |-> llm, allow_delegation |-> allow_delegation]

\* Task(description=f"...{topic}...", agent=..., context=[...]); context holds
\* the names of the tasks whose output this task receives.
Task(name, topic, agent, context) ==
  [name |-> name, topic |-> topic, agent |-> agent, context |-> context]

\* Crew(agents=[...], tasks=[...], process=...)
Crew(agents, tasks, process) == [agents |-> agents, tasks |-> tasks, process |-> process]

\* The outputs of the tasks named in `context`, among the steps already run.
ContextOf(context, steps) ==
  LET idx == { i \in DOMAIN steps : \E j \in DOMAIN context : steps[i].task = context[j] }
      F[i \in 0..Len(steps)] ==
        IF i = 0 THEN << >>
        ELSE IF i \in idx THEN Append(F[i - 1], steps[i].output) ELSE F[i - 1]
  IN F[Len(steps)]

\* The text the collaborator produces for a task.
OutputOf(task, c) == IF task.name = "research_task" THEN c.research ELSE c.writing

\* Process.sequential: the tasks run in list order, each receiving the outputs
\* of its context tasks; a failing step raises and nothing runs after it.
RECURSIVE RunTasks(_, _, _)

\* The execution of task t after `steps`: the context it receives, its output.
StepOf(t, steps, c) ==
  [task |-> t.name, agent |-> t.agent.role,
   context |-> ContextOf(t.context, steps), output |-> OutputOf(t, c)]

\* Task t is executed as `here`: it raises, or the remaining tasks run.
Execute(t, here, rest, steps, c) ==
  IF    (c.fail = "research" /\ t.name = "research_task")
     \/ (c.fail = "writing" /\ t.name = "writing_task")
  THEN Raise("Exception", c.msg, << >>, Append(steps, [here EXCEPT !.output = ""]))
  ELSE RunTasks(rest, Append(steps, here), c)

RunTasks(tasks, steps, c) ==
  IF tasks = << >> THEN Ok(steps[Len(steps)].output, << >>, steps)
  ELSE Execute(Head(tasks), StepOf(Head(tasks), steps, c), Tail(tasks), steps, c)

\* The collaborator's result object for the outcome r of the tasks: a
\* CrewOutput carrying .raw, or a plain str.
ResultOf(r, c) ==
  IF r.ok THEN [r EXCEPT !.val = [type |-> c.type, raw |-> r.val]] ELSE r

\* crew.kickoff()
kickoff(crew, c) == ResultOf(RunTasks(crew.tasks, << >>, c), c)

\* ======================================================== AI_Blog_Agent
\* get_clarifai_llm: LLM(model=model_name, api_key=CLARIFAI_PAT, base_url=...).
\* The name LLM is looked up in the module's globals when the call runs.
get_clarifai_llm(model_name, pat, c) ==
  IF "LLM" \notin ImportedAI
  THEN Raise("NameError", "name 'LLM' is not defined", << >>, << >>)
  ELSE IF c.fail = "LLM" THEN Raise("Exception", c.msg, << >>, << >>)
  ELSE Ok([model |-> model_name, api_key |-> pat,
           base_url |-> "https://api.clarifai.com/v2/ext/openai/v1"], << "LLM" >>, << >>)

\* create_agents: each Agent's llm argument is evaluated before the Agent is built.
AgentsAI(l1, l2) ==
  IF ~l1.ok THEN l1
  ELSE IF ~l2.ok THEN [l2 EXCEPT !.trace = l1.trace \o << "Agent" >>]
  ELSE Ok(<< Agent("Senior Research Analyst", << "search_tool" >>, l1.val, FALSE),
             Agent("Tech Content Strategist", << >>, l2.val, TRUE) >>,
          l1.trace \o << "Agent" >> \o l2.trace \o << "Agent" >>, << >>)

create_agents(model_name, pat, c) ==
  AgentsAI(get_clarifai_llm(model_name, pat, c), get_clarifai_llm(model_name, pat, c))

\* create_tasks: the writing task declares context=[research_task].
create_tasks(topic, researcher, writer) ==
  << Task("research_task", topic, researcher, << >>),
     Task("writing_task", topic, writer, << "research_task" >>) >>

\* run_blog_generation once create_agents has yielded a: the tasks and the
\* crew are built and the crew is kicked off.
CrewAI(topic, a, c) ==
  IF ~a.ok THEN a
  ELSE [kickoff(Crew(a.val, create_tasks(topic, a.val[1], a.val[2]), "sequential"), c)
          EXCEPT !.trace = a.trace \o << "Task", "Task", "Crew", "kickoff" >>]

\* The body of run_blog_generation, as it runs on a cache miss.
blog_generation(topic, model_name, pat, c) ==
  CrewAI(topic, create_agents(model_name, pat, c), c)

\* st.cache_data keeps, per argument tuple, the value and the time it expires.
CacheLive(cch, key, t) == key \in DOMAIN cch /\ t < cch[key].expires

CacheStore(cch, key, value, t) ==
  [k \in DOMAIN cch \cup {key} |->
     IF k = key THEN [value |-> value, expires |-> t + ttl] ELSE cch[k]]

\* Mutant: the outcome is stored whether the body returned or raised.
CacheAfterAlways(cch, key, r, t) == CacheStore(cch, key, r.val, t)

\* What the cache holds after a miss ran the body: a returned value is stored,
\* a raised exception is not.
CacheAfter(cch, key, r, t) == IF r.ok THEN CacheStore(cch, key, r.val, t) ELSE cch

\* @st.cache_data(ttl=3600) run_blog_generation(topic, model_name)
\* A miss: the body ran with outcome r.
Miss(cch, key, r, t) == [res |-> r, cache |-> CacheAfter(cch, key, r, t), hit |-> FALSE]

\* A hit: the stored value is returned, the body does not run.
Hit(cch, key) == [res |-> Ok(cch[key].value, << >>, << >>), cache |-> cch, hit |-> TRUE]

run_blog_generation(cch, t, topic, model_name, pat, c) ==
  IF CacheLive(cch, << topic, model_name >>, t)
  THEN Hit(cch, << topic, model_name >>)
  ELSE Miss(cch, << topic, model_name >>, blog_generation(topic, model_name, pat, c), t)

\* The outcome of one script run.
Page(o, b, tr, st, e, cch, entered, err) ==
  [out |-> o, button |-> b, trace |-> tr, steps |-> st, env |-> e, cache |-> cch,
   entered |-> entered, raised |-> err]

\* The except branch of main: st.error(f"Error: {str(e)}")
ErrorAI(r) == << El("error", << "Error: ", r.err >>) >>

\* The try branch of main after run_blog_generation returned.
ShowAI(topic, result) ==
  << El("subheader", << "Generated Content" >>),
     El("markdown", << result.raw >>),
     DownloadButton(file_name_AI(topic), << result.raw >>) >>

\* disabled=not topic.strip()
ButtonAI(w) == IF strip(w.topic) = << >> THEN "disabled" ELSE "enabled"

\* main() of AI_Blog_Agent; tr is the trace of the module-level code before it.
\* The try statement of main, run_blog_generation having yielded g.
TryAI(e, w, g, tr) ==
  Page(IF g.res.ok THEN ShowAI(w.topic, g.res.val) ELSE ErrorAI(g.res),
       ButtonAI(w), tr \o g.res.trace, g.res.steps, e, g.cache, TRUE, g.res.err)

mainAI(e, w, isClick, cch, t, pat, c, tr) ==
  IF ~isClick THEN Page(<< >>, ButtonAI(w), tr, << >>, e, cch, FALSE, "")
  ELSE TryAI(e, w, run_blog_generation(cch, t, w.topic, w.model_name, pat, c), tr)

\* Mutant: only CLARIFAI_PAT is validated.
ValidateAI_PatOnly(e) ==
  IF ~Truthy(getenv(e, "CLARIFAI_PAT", None))
  THEN << El("error", << "Please set ", "CLARIFAI_PAT", " environment variable" >>) >>
  ELSE << >>

\* The module-level validation of the two environment variables.
ValidateAI(e) ==
  IF ~Truthy(getenv(e, "CLARIFAI_PAT", None))
  THEN << El("error", << "Please set ", "CLARIFAI_PAT", " environment variable" >>) >>
  ELSE IF ~Truthy(getenv(e, "SERPER_API_KEY", None))
  THEN << El("error", << "Please set ", "SERPER_API_KEY", " environment variable" >>) >>
  ELSE << >>

\* One run of AI_Blog_Agent/app.py: validation (st.stop on a missing secret),
\* the module-level SerperDevTool(), whose exception nothing catches (Streamlit
\* shows it), then main().
RunAI(e, w, isClick, cch, t, c) ==
  IF ValidateAI(e) # << >>
  THEN Page(ValidateAI(e), "absent", << >>, << >>, e, cch, FALSE, "")
  ELSE IF c.fail = "SerperDevTool"
  THEN Page(<< El("exception", << c.msg >>) >>, "absent", << >>, << >>, e, cch, FALSE,
            c.msg)
  ELSE mainAI(e, w, isClick, cch, t, getenv(e, "CLARIFAI_PAT", None), c,
              << "SerperDevTool" >>)

\* ========================================================= AL_Blog_Post
\* Mutant: the second warning is a copy of the first, its name not changed.
SetupAL_CopiedWarning(w) ==
  (IF ~Truthy(w.clarifai_pat)
   THEN << El("warning", << "CLARIFAI_PAT", " is required" >>) >> ELSE << >>)
  \o
  (IF ~Truthy(w.serper_key)
   THEN << El("warning", << "CLARIFAI_PAT", " is required" >>) >> ELSE << >>)
  \o
  (IF Truthy(w.clarifai_pat) /\ Truthy(w.serper_key)
   THEN << El("success", << "All environment variables are set" >>) >> ELSE << >>)

\* The "Environment Setup" expander: one warning per missing field, or the
\* success line when both are filled.
SetupAL(w) ==
  (IF ~Truthy(w.clarifai_pat)
   THEN << El("warning", << "CLARIFAI_PAT", " is required" >>) >> ELSE << >>)
  \o
  (IF ~Truthy(w.serper_key)
   THEN << El("warning", << "SERPER_API_KEY", " is required" >>) >> ELSE << >>)
  \o
  (IF Truthy(w.clarifai_pat) /\ Truthy(w.serper_key)
   THEN << El("success", << "All environment variables are set" >>) >> ELSE << >>)

\* disabled=not (topic and clarifai_pat and serper_key)
ButtonAL(w) ==
  IF w.topic # << >> /\ Truthy(w.clarifai_pat) /\ Truthy(w.serper_key)
  THEN "enabled" ELSE "disabled"

\* Mutant: only CLARIFAI_PAT is written back.
ExportAL_PatOnly(e, w) == setenv(e, "CLARIFAI_PAT", w.clarifai_pat)

\* os.environ["CLARIFAI_PAT"] = clarifai_pat; os.environ["SERPER_API_KEY"] = serper_key
ExportAL(e, w) ==
  setenv(setenv(e, "CLARIFAI_PAT", w.clarifai_pat), "SERPER_API_KEY", w.serper_key)

\* The two Agent(...) constructions of main.
AgentsAL(llm) ==
  << Agent("Research Analyst", << "search_tool" >>, llm, FALSE),
     Agent("Content Writer", << >>, llm, FALSE) >>

\* The two Task(...) constructions of main: the writing task declares
\* context=[research_task].
TasksAL(topic, researcher, writer) ==
  << Task("research_task", topic, researcher, << >>),
     Task("writing_task", topic, writer, << "research_task" >>) >>

\* "Handle different result types": .raw of a CrewOutput, the str itself, or
\* str(result).
ContentAL(result) ==
  CASE result.type = "CrewOutput" -> result.raw
    [] result.type = "str"        -> result.raw
    [] OTHER                      -> result.raw

\* "Display results": subheader, the content, the download button.
ShowAL(topic, result) ==
  << El("subheader", << "Generated Blog Post" >>),
     El("markdown", << ContentAL(result) >>),
     DownloadButton(file_name_AL(topic), << ContentAL(result) >>) >>

\* Mutant: the except branch shows a fixed text and then the result section.
ErrorAL_Swallowed(r) ==
  << El("error", << "Error occurred" >>), El("subheader", << "Generated Blog Post" >>) >>

\* The outer except branch: the error line and the debug expander.
ErrorAL(r) ==
  << El("error", << "Error occurred: ", r.err >>),
     El("code", << "Error Type: ", r.etype, "Error Message: ", r.err >>) >>

\* Mutant: a kickoff that raised is tried once more.
KickoffCallsRetry(k) == IF k.ok THEN << "kickoff" >> ELSE << "kickoff", "kickoff" >>

\* result = crew.kickoff(): the calls made for one outcome k of the collaborator.
KickoffCalls(k) == << "kickoff" >>

\* A page of AL_Blog_Post: the setup expander, then `body`.
PageAL(w, body, tr, st, e, entered, err) ==
  Page(SetupAL(w) \o body, ButtonAL(w), tr, st, e, << >>, entered, err)

\* LLM(model=f"clarifai/{model_name}", api_key=clarifai_pat)
LLM_AL(w) == [model |-> << "clarifai/", w.model_name >>, api_key |-> w.clarifai_pat]

\* The exception the LLM(...) construction raises, "" if none.
LLMErrorAL(c) ==
  IF "LLM" \notin ImportedAL THEN "name 'LLM' is not defined"
  ELSE IF c.fail = "LLM" THEN c.msg ELSE ""

\* Crew(agents=[researcher, writer], tasks=[research_task, writing_task],
\*      process=Process.sequential)
CrewAL(topic, agents) ==
  Crew(agents, TasksAL(topic, agents[1], agents[2]), "sequential")

\* The try statement of the generate handler, the environment written as e2
\* and the crew (if it is reached) yielding k.  A failing LLM or search tool
\* construction shows its own error and st.stop()s the script.
TryAL(w, e2, c, llmErr, k) ==
  IF llmErr # ""
  THEN PageAL(w, << El("error", << "LLM initialization failed: ", llmErr >>) >>,
              << >>, << >>, e2, TRUE, llmErr)
  ELSE IF c.fail = "SerperDevTool"
  THEN PageAL(w, << El("error", << "Search tool initialization failed: ", c.msg >>) >>,
              << "LLM" >>, << >>, e2, TRUE, c.msg)
  ELSE PageAL(w, IF k.ok THEN ShowAL(w.topic, k.val) ELSE ErrorAL(k),
              << "LLM", "SerperDevTool", "Agent", "Agent", "Task", "Task", "Crew" >>
                \o KickoffCalls(k),
              k.steps, e2, TRUE, k.err)

\* The body of the generate handler after the two checks: the environment is
\* written, then LLM, search tool, agents, tasks and crew are built and the
\* crew is kicked off.
OrchestrateAL(e, w, c) ==
  TryAL(w, ExportAL(e, w), c, LLMErrorAL(c),
        kickoff(CrewAL(w.topic, AgentsAL(LLM_AL(w))), c))

\* One run of AL_Blog_Post/app.py.
RunAL(e, w, isClick, c) ==
  IF ~isClick THEN PageAL(w, << >>, << >>, << >>, e, FALSE, "")
  ELSE IF strip(w.topic) = << >>
  THEN PageAL(w, << El("warning", << "Please enter a valid topic" >>) >>,
              << >>, << >>, e, FALSE, "")
  ELSE IF ~Truthy(w.clarifai_pat) \/ ~Truthy(w.serper_key)
  THEN PageAL(w, << El("error", << "Please provide both API keys" >>) >>,
              << >>, << >>, e, FALSE, "")
  ELSE OrchestrateAL(e, w, c)

\* ======================================================== state machine
VARIABLES
  app,           \* which of the two apps this process runs
  env,           \* os.environ, restricted to the two secrets
  topic,         \* the "Enter blog topic:" text input
  model_name,    \* the "Clarifai Model" selectbox
  clarifai_pat,  \* the CLARIFAI_PAT text input (AL_Blog_Post)
  serper_key,    \* the SERPER_API_KEY text input (AL_Blog_Post)
  now,           \* the clock, in seconds
  cache,         \* the st.cache_data store of run_blog_generation
  out,           \* the elements the last script run rendered
  button,        \* the generate button of the last run: absent, disabled, enabled
  trace,         \* the constructions and kickoff calls of the last run, in order
  steps,         \* the task executions of the last run, in order
  clicked,       \* whether the last run was started by the generate button
  entered,       \* whether the last run got past the checks of the generate handler
  raised,        \* the message of the exception the last run raised, "" if none
  prevGen        \* the last call of run_blog_generation with the (topic, model) now
                 \* on the form: when it was made and whether it kicked the crew
                 \* off; NoGen if there was none

vars == << app, env, topic, model_name, clarifai_pat, serper_key, now, cache, out,
           button, trace, steps, clicked, entered, raised, prevGen >>

\* A long sample topic of length n: "a a<tab>a a<tab>..."
Sample(n) == [i \in 1..n |-> IF i % 2 = 1 THEN "a" ELSE IF i % 4 = 2 THEN " " ELSE "\t"]

UpTo(n) == UNION { [1..k -> Chars] : k \in 0..n }

\* The topics a user types: every short one, the spec's "My Topic!!", and
\* samples at and beyond the file-name limit.
Topics ==
  UpTo(MaxTopicLen)
  \cup { << "M", "y", " ", "T", "o", "p", "i", "c", "!", "!" >> }
  \cup { Sample(MaxNameLen), Sample(MaxNameLen + LongExtra) }

Widgets == [topic |-> topic, model_name |-> model_name,
            clarifai_pat |-> clarifai_pat, serper_key |-> serper_key]

\* The widget values of the next run: the user has edited at most one widget
\* since the last one.
Edits(a, w) ==
  {w}
  \cup { [w EXCEPT !.topic = t] : t \in Topics }
  \cup { [w EXCEPT !.model_name = ModelOptions(a)[i]] :
            i \in { j \in DOMAIN ModelOptions(a) : j <= MaxModels } }
  \cup (IF a = "AL_Blog_Post"
        THEN { [w EXCEPT !.clarifai_pat = k] : k \in Keys }
             \cup { [w EXCEPT !.serper_key = k] : k \in Keys }
        ELSE {})

\* The collaborator outcomes that matter to a run without a click.
RenderCollabs ==
  { c \in Collabs : c.fail = "SerperDevTool" \/ (c.fail = "none" /\ c.type = "str") }

NoGen == [at |-> -1, kicked |-> FALSE]

\* The first run's widget values: empty topic, index=0 model, and in
\* AL_Blog_Post the fields' defaults os.getenv(name, "").
Defaults(a, e) ==
  [topic |-> << >>, model_name |-> ModelOptions(a)[1],
   clarifai_pat |-> IF a = "AL_Blog_Post" THEN getenv(e, "CLARIFAI_PAT", "") ELSE "",
   serper_key |-> IF a = "AL_Blog_Post" THEN getenv(e, "SERPER_API_KEY", "") ELSE ""]

\* The script run of either app.
Run(a, e, w, isClick, cch, t, c) ==
  IF a = "AI_Blog_Agent" THEN RunAI(e, w, isClick, cch, t, c) ELSE RunAL(e, w, isClick, c)

\* The state a script run leaves.
Shown(w, isClick, p) ==
  /\ topic' = w.topic
  /\ model_name' = w.model_name
  /\ clarifai_pat' = w.clarifai_pat
  /\ serper_key' = w.serper_key
  /\ env' = p.env
  /\ cache' = p.cache
  /\ out' = p.out
  /\ button' = p.button
  /\ trace' = p.trace
  /\ steps' = p.steps
  /\ clicked' = isClick
  /\ entered' = p.entered
  /\ raised' = p.raised

\* A collaborator outcome without a failure.
NoFailure == CHOOSE c \in Collabs : c.fail = "none"

\* The state the first script run leaves.
Loaded(w, p) ==
  /\ topic = w.topic
  /\ model_name = w.model_name
  /\ clarifai_pat = w.clarifai_pat
  /\ serper_key = w.serper_key
  /\ cache = p.cache
  /\ out = p.out
  /\ button = p.button
  /\ trace = p.trace
  /\ steps = p.steps
  /\ entered = p.entered
  /\ raised = p.raised

Init ==
  /\ app \in Apps
  /\ env \in Environs
  /\ now = 0
  /\ prevGen = NoGen
  /\ clicked = FALSE
  /\ Loaded(Defaults(app, env),
            Run(app, env, Defaults(app, env), FALSE, << >>, 0, NoFailure))

\* prevGen once the form holds w: kept while the (topic, model) pair stays.
SamePair(w) ==
  IF w.topic = topic /\ w.model_name = model_name THEN prevGen ELSE NoGen

\* A widget edit (or a plain rerun) of AI_Blog_Agent: the script runs, the
\* button returns False.
RenderAI ==
  /\ app = "AI_Blog_Agent"
  /\ \E w \in Edits(app, Widgets), c \in RenderCollabs :
       /\ Shown(w, FALSE, RunAI(env, w, FALSE, cache, now, c))
       /\ prevGen' = SamePair(w)
  /\ UNCHANGED << app, now >>

\* The state a generate run of AI_Blog_Agent leaves.
Generated(w, p) ==
  /\ Shown(w, TRUE, p)
  /\ prevGen' = IF p.entered
                THEN [at |-> now, kicked |-> "kickoff" \in Range(p.trace)]
                ELSE SamePair(w)

\* A click on the generate button of AI_Blog_Agent, which the last run
\* rendered enabled: the script runs, the button returns True.
GenerateAI ==
  /\ app = "AI_Blog_Agent"
  /\ button = "enabled"
  /\ \E w \in Edits(app, Widgets), c \in Collabs :
       Generated(w, RunAI(env, w, TRUE, cache, now, c))
  /\ UNCHANGED << app, now >>

\* A widget edit (or a plain rerun) of AL_Blog_Post.
RenderAL ==
  /\ app = "AL_Blog_Post"
  /\ \E w \in Edits(app, Widgets) :
       Shown(w, FALSE, RunAL(env, w, FALSE, NoFailure))
  /\ UNCHANGED << app, now, prevGen >>

\* A click on the generate button of AL_Blog_Post, which the last run
\* rendered enabled.
GenerateAL ==
  /\ app = "AL_Blog_Post"
  /\ button = "enabled"
  /\ \E w \in Edits(app, Widgets), c \in Collabs :
       Shown(w, TRUE, RunAL(env, w, TRUE, c))
  /\ UNCHANGED << app, now, prevGen >>

\* Time passes between two interactions (only the cached app reads the clock).
Tick ==
  /\ app = "AI_Blog_Agent"
  /\ now < MaxTicks * TickSeconds
  /\ now' = now + TickSeconds
  /\ UNCHANGED << app, env, topic, model_name, clarifai_pat, serper_key, cache, out,
                  button, trace, steps, clicked, entered, raised, prevGen >>

Next == RenderAI \/ GenerateAI \/ RenderAL \/ GenerateAL \/ Tick

Spec == Init /\ [][Next]_vars

\* =========================================================== properties
AI == app = "AI_Blog_Agent"
AL == app = "AL_Blog_Post"

Blank(t) == strip(t) = << >>

\* The value of a secret as the last run saw it: the environment variable in
\* AI_Blog_Agent, the form field of that name in AL_Blog_Post.
Credential(n) ==
  IF AI THEN getenv(env, n, None)
  ELSE IF n = "CLARIFAI_PAT" THEN clarifai_pat ELSE serper_key

Absent == { n \in Range(SecretNames) : ~Truthy(Credential(n)) }

Kinds(ks) == { i \in DOMAIN out : out[i].kind \in ks }

Count(x, s) == Cardinality({ i \in DOMAIN s : s[i] = x })

\* A collaborator call raised in the last run (the messages of Msgs are theirs).
CollaboratorFailed == raised \in Msgs

\* C1: for every empty or whitespace-only topic, whatever the credentials, the
\* generate button is not rendered enabled, in both apps.
C1_DisabledWhenBlank == Blank(topic) => button # "enabled"

\* C2: whenever a secret is absent or empty (as the run saw it, or in the
\* process environment the run leaves), the run halted before any orchestration:
\* nothing was constructed, no task ran, kickoff was not called.
C2_HaltsWithoutCredentials ==
  (Absent # {} \/ \E n \in Range(SecretNames) : ~Truthy(getenv(env, n, None)))
    => trace = << >> /\ steps = << >>

\* A generate click with a topic and one secret missing was rejected.
C2_Witness ==
  AL /\ clicked /\ ~Blank(topic) /\ Absent = {"SERPER_API_KEY"} /\ trace = << >>

\* The task executions of a complete sequential run: research first, then
\* writing with exactly the research output as its context.
ResearchThenWriting ==
  /\ Len(steps) = 2
  /\ steps[1].task = "research_task" /\ steps[1].context = << >>
  /\ steps[2].task = "writing_task"
  /\ steps[2].context = << steps[1].output >>
  /\ steps[1].output \in ResearchOutputs

\* A generate click got through with a non-blank topic and both secrets, and
\* no collaborator call raised.
GenerateSucceeds ==
  clicked /\ ~Blank(topic) /\ Absent = {} /\ button # "absent" /\ ~CollaboratorFailed

\* C3: a generate action with a non-blank topic, valid credentials and no
\* failing collaborator call runs the research step and then the writing step,
\* the writing step receiving the research output verbatim, in both apps.
C3_ResearchThenWriting == GenerateSucceeds => ResearchThenWriting

\* The same, of AL_Blog_Post alone.
C3_InAL == (AL /\ GenerateSucceeds) => ResearchThenWriting

\* The step taken is a generate click of AI_Blog_Agent that called
\* run_blog_generation with the (topic, model) pair the form already held.
RepeatedGeneration ==
  /\ AI /\ clicked' /\ entered'
  /\ topic' = topic /\ model_name' = model_name
  /\ prevGen # NoGen

\* C4: of two calls with the same (topic, model) inside the validity window
\* at most one kicks the crew off, and a call made after the window has expired
\* kicks it off again (unless a collaborator call raises).
C4_CacheWindow ==
  [][ RepeatedGeneration =>
        /\ (prevGen.kicked /\ now - prevGen.at < ttl) => "kickoff" \notin Range(trace')
        /\ (now - prevGen.at >= ttl /\ raised' \notin Msgs) => "kickoff" \in Range(trace')
    ]_vars

\* C5: whenever a step of a run raises, the page shows an error element
\* carrying the exception's message and shows no result: no "Generated ..."
\* section, no content, no download button.
C5_ErrorShownWithoutContent ==
  raised # "" =>
    /\ \E i \in Kinds({"error", "exception"}) : raised \in Range(out[i].text)
    /\ Kinds({"subheader", "markdown", "download_button"}) = {}

\* The crew of AL_Blog_Post raised while a task was running.
C5_Witness == AL /\ clicked /\ raised \in Msgs /\ steps # << >>

\* The expected file name: the first MaxNameLen characters of the topic, each
\* character of `blanks` turned into an underscore, then "_blog.md".
NameOf(t, blanks, name) ==
  LET n == IF Len(t) < MaxNameLen THEN Len(t) ELSE MaxNameLen
  IN /\ Len(name) = n + Len(BlogSuffix)
     /\ \A i \in 1..n : name[i] = IF t[i] \in blanks THEN "_" ELSE t[i]
     /\ \A i \in 1..Len(BlogSuffix) : name[n + i] = BlogSuffix[i]

\* C6 as stated: every whitespace character of the topic becomes an underscore.
C6_WhitespaceReplaced ==
  /\ \A i \in Kinds({"download_button"}) : NameOf(topic, Whitespace, out[i].text)
  /\ file_name_AI(topic) = file_name_AL(topic)

\* C6, amended: the file name is the topic with every space character (U+0020)
\* replaced by an underscore and every other character, other whitespace
\* included, kept; cut to its first 30 characters; followed by "_blog.md".  Both
\* apps compute the same name for the same topic.
C6_SpacesReplaced ==
  /\ \A i \in Kinds({"download_button"}) : NameOf(topic, {" "}, out[i].text)
  /\ NameOf(topic, {" "}, file_name_AI(topic))
  /\ file_name_AI(topic) = file_name_AL(topic)

\* A download button for a topic longer than the limit, holding spaces and tabs.
C6_Witness ==
  /\ Kinds({"download_button"}) # {}
  /\ Len(topic) > MaxNameLen
  /\ {" ", "\t"} \subseteq Range(topic)

\* C7: one run calls crew.kickoff at most once and runs no task twice; when
\* the crew raises, kickoff was called exactly once and the page shows exactly
\* one error element, which carries the exception's own message.
C7_SingleKickoff ==
  /\ Count("kickoff", trace) <= 1
  /\ \A i, j \in DOMAIN steps : steps[i].task = steps[j].task => i = j
  /\ (raised # "" /\ steps # << >>) =>
       /\ Count("kickoff", trace) = 1
       /\ Cardinality(Kinds({"error", "exception"})) = 1
       /\ \A i \in Kinds({"error", "exception"}) : raised \in Range(out[i].text)

\* The writing step of AL_Blog_Post raised after the research step had run.
C7_Witness == AL /\ raised \in Msgs /\ Len(steps) = 2 /\ Count("kickoff", trace) = 1

\* The secrets named by the warnings and errors of the page.
Named ==
  { n \in Range(SecretNames) :
      \E i \in Kinds({"error", "warning"}) : n \in Range(out[i].text) }

\* C8 as stated: the page names every absent secret and no present one.
C8_NamesEveryAbsent == Absent # {} => Named = Absent

\* C8, amended: the page names an absent secret and never a present one;
\* AL_Blog_Post names every absent secret, AI_Blog_Agent names only the first
\* absent one in the order CLARIFAI_PAT, SERPER_API_KEY (so with both absent it
\* names CLARIFAI_PAT alone).
C8_NamesFirstAbsent ==
  /\ Named \subseteq Absent
  /\ AL => Named = Absent
  /\ (AI /\ Absent # {}) =>
       Named = { IF SecretNames[1] \in Absent THEN SecretNames[1] ELSE SecretNames[2] }

\* AI_Blog_Agent with both secrets absent.
C8_Witness == AI /\ Absent = Range(SecretNames) /\ Named = {"CLARIFAI_PAT"}

AcceptedGenerate ==
  AL /\ clicked' /\ ~Blank(topic') /\ Truthy(clarifai_pat') /\ Truthy(serper_key')

\* C10: the process environment changes only by a generate click of
\* AL_Blog_Post with a non-blank topic and both form fields filled; such a click
\* leaves both variables equal to the form fields, also when the run then
\* fails; every other run, and every run of AI_Blog_Agent, leaves it as it was.
C10_EnvironmentWrites ==
  [][ /\ AcceptedGenerate =>
           /\ DOMAIN env' = DOMAIN env \cup Range(SecretNames)
           /\ env'["CLARIFAI_PAT"] = clarifai_pat'
           /\ env'["SERPER_API_KEY"] = serper_key'
      /\ ~AcceptedGenerate => env' = env
    ]_vars

\* A run of AL_Blog_Post that wrote the typed keys and then failed.
C10_Witness ==
  /\ AL /\ clicked /\ entered /\ raised # ""
  /\ DOMAIN env = Range(SecretNames)
  /\ env["CLARIFAI_PAT"] = "k2" /\ env["SERPER_API_KEY"] = "k2"

\* The last run made an orchestration attempt: it got past the checks of the
\* generate handler, or it constructed an LLM, a search tool, an agent, a task
\* or a crew, or it ran a task or called crew.kickoff.
OrchestrationAttempt == entered \/ trace # << >> \/ steps # << >>

\* C11: in both apps, a run whose topic is empty or whitespace-only makes no
\* orchestration attempt, whatever the credentials and whatever the user did
\* before: nothing is constructed, no task runs and crew.kickoff is not called.
C11_NoOrchestrationWhenBlank == Blank(topic) => ~OrchestrationAttempt

\* The same, of AL_Blog_Post alone.
C11_InAL == (AL /\ Blank(topic)) => ~OrchestrationAttempt

\* A generate click of AI_Blog_Agent, made on an enabled button and arriving
\* together with the edit that blanked the topic, never calls
\* run_blog_generation.
C11_ClickNotEnteredInAI == (AI /\ clicked /\ Blank(topic)) => ~entered

====
